---------------------------- MODULE Spec2Model ----------------------------
(***************************************************************************)
(* The kitchen of src/app.py (class CuisineFlan and the Flask handlers     *)
(* that share the global `cuisine` object) as a state machine.             *)
(*                                                                         *)
(* The server runs with threaded=True (src/app.py:719): every request is   *)
(* served on a thread of its own, every accepted order starts one more     *)
(* thread (simuler_cuisson), and no lock protects `cuisine`.  A step of    *)
(* the model is therefore one access to the shared state: one read or one  *)
(* write of a field of cuisine, of an oven or of an order.  Code that      *)
(* touches only locals is folded into the step that follows it.            *)
(*                                                                         *)
(* Left out: wall-clock values (debut, fin and the events' timestamps are  *)
(* kept only as "set or not"), the PaquetFlan payloads and portions, which *)
(* no control decision reads.  Of a request's JSON body the model keeps    *)
(* the values the handler branches on and whether their types are those    *)
(* the handler can use: a handler that raises answers 500.                 *)
(***************************************************************************)
EXTENDS Integers, Sequences, FiniteSets, TLC

(***************************************************************************)
(* Bounds of the model.                                                    *)
(***************************************************************************)
NumHandlers == 2      \* request threads serving at the same time
MaxRequetes == 2      \* requests served in one behaviour
MaxEtapes == 3        \* Spec: pipeline stages begun in one behaviour, all orders together
MaxCommandes == 1     \* SpecCuisson: orders submitted in one behaviour
NbPrefix == 100       \* SpecPlein: events published before the first state
MaxEtapesPlein == 1   \* SpecPlein: pipeline stages begun in one behaviour
MaxRequetesFlux == 3  \* SpecFlux: requests served in one behaviour
MaxEtapesFlux == 2    \* SpecFlux: pipeline stages begun in one behaviour
MaxRecus == 3         \* items of an event stream that the model follows
MaxRequetesComplet == 2  \* SpecComplet: requests served in one behaviour
MaxReserves == 4      \* SpecPool: requests served in one behaviour
MaxEtapesPool == 1    \* SpecPool: pipeline stages begun in one behaviour
MaxPipelinesComplet == 1  \* SpecComplet: pipelines that begin stages in one behaviour
MaxPipelinesDeux == 1     \* SpecDeux: pipelines that begin stages in one behaviour

(***************************************************************************)
(* Program constants.                                                      *)
(***************************************************************************)
NbFours == 3          \* for i in range(1, 4)
MaxHistorique == 100  \* if len(self.historique) > 100
LargeurId == 4        \* f"CMD-{...:04d}"

Handlers == 1..NumHandlers
\* One pipeline thread for each order a behaviour can create.
Taches == (NumHandlers + 1)..(NumHandlers + MaxRequetes + NbFours + MaxRequetesComplet)
Threads == Handlers \cup Taches

\* The ovens four_1, four_2, four_3 in the insertion order of cuisine.fours.
Fours == 1..NbFours
\* A request's four_id that is absent (None).
Aucun == 0
\* A request's four_id that names no oven of cuisine.fours.
FourInconnu == NbFours + 1

\* The keys of cuisine.recettes.
Recettes == {"flan_vanille", "flan_orange", "flan_chocolat", "flan_caramel"}

\* The stage table of simuler_cuisson: id, progression, duree (in tenths of s).
Etapes ==
  << [id |-> "rassemblement_ingredients", progression |-> 10,  duree |-> 5],
     [id |-> "caramelisation",            progression |-> 25,  duree |-> 8],
     [id |-> "melange_appareil",          progression |-> 50,  duree |-> 6],
     [id |-> "versement",                 progression |-> 60,  duree |-> 3],
     [id |-> "cuisson",                   progression |-> 85,  duree |-> 15],
     [id |-> "refroidissement",           progression |-> 95,  duree |-> 7],
     [id |-> "demoulage",                 progression |-> 100, duree |-> 4] >>

VARIABLES
  fours,               \* cuisine.fours: oven -> [statut, temperature, commande_en_cours]
  commandes,           \* cuisine.commandes: order id -> the order object (an index of tas)
  tas,                 \* the order dicts ever created, in creation order
  historique,          \* cuisine.historique
  events_queue,        \* cuisine.events_queue
  compteur_commandes,  \* cuisine.compteur_commandes
  th,                  \* the threads: request handlers and pipeline tasks
  cpt                  \* counters of the behaviour so far: requests begun (nreq),
                       \* submissions begun (ncmd), pipeline stages begun (netapes),
                       \* events put on the queue (nput)

vars == <<fours, commandes, tas, historique, events_queue, compteur_commandes, th, cpt>>

\* What an action leaves alone, beside th and the variables it names.
cuisine == <<fours, commandes, tas, historique, events_queue, compteur_commandes>>

\* None, for commande_en_cours and for a thread's unset locals.
None == <<>>

(***************************************************************************)
(* Pure helpers.                                                           *)
(***************************************************************************)

RECURSIVE Chiffres(_)
\* The decimal digits of n >= 0, most significant first.
Chiffres(n) == IF n < 10 THEN <<n>> ELSE Append(Chiffres(n \div 10), n % 10)

RECURSIVE Zeros(_)
Zeros(k) == IF k <= 0 THEN <<>> ELSE <<0>> \o Zeros(k - 1)

\* f"CMD-{n:04d}": the prefix, then n in decimal, zero-padded to four digits.
FormatId(n) == <<"CMD-">> \o Zeros(LargeurId - Len(Chiffres(n))) \o Chiffres(n)

\* Python's s[-n:] for a list s and an integer n.
Derniers(s, n) ==
  LET len == Len(s)
      deb == IF n > 0 THEN (IF len - n > 0 THEN len - n ELSE 0)   \* s[-n:], n > 0
             ELSE IF n = 0 THEN 0                                 \* s[-0:] is s[0:]
             ELSE (IF -n < len THEN -n ELSE len)                  \* s[k:], k = -n > 0
  IN  SubSeq(s, deb + 1, len)

\* An event of ajouter_event.  rang is not a field of the program's event: it
\* is the event's position among all events ever put on the queue (set by
\* AjouterPut), which tells apart two events of the same content as their
\* timestamps do.
Event(type, cid, etape) == [type |-> type, commande_id |-> cid, etape |-> etape, rang |-> 0]

\* A thread with nothing in its locals: where it is (pc, and pub inside
\* ajouter_event), its locals, and the response it is about to send (res, out).
\* ordre is not a local: it names, for a pipeline thread, the order its
\* submission created.  Nor is calme: it tells, for an event stream, whether
\* the kitchen was at rest when the stream was opened; nor auto: it tells, for
\* a submission, whether its oven came from trouver_four_disponible.
\* options is the local of commander, kept as "dict" (a JSON object, or
\* the default {}) or "autre" (null, a string, a number, an array).
Repos(pc) ==
  [pc |-> pc, recette |-> "", four_id |-> Aucun, i |-> 0, tmp |-> 0, cid |-> None,
   commande |-> 0, k |-> 0, pub |-> "none", ev |-> None, tmph |-> <<>>,
   res |-> 0, arg |-> 0, out |-> <<>>, ordre |-> 0, calme |-> FALSE,
   auto |-> FALSE, options |-> "dict"]

FourInit == [statut |-> "disponible", temperature |-> 0, commande_en_cours |-> None]

(***************************************************************************)
(* Initial state: CuisineFlan.__init__, no request being served.           *)
(***************************************************************************)
Init ==
  /\ fours = [f \in Fours |-> FourInit]
  /\ commandes = <<>>
  /\ tas = <<>>
  /\ historique = <<>>
  /\ events_queue = <<>>
  /\ compteur_commandes = 0
  /\ th = [t \in Threads |-> IF t \in Handlers THEN Repos("idle") ELSE Repos("absent")]
  /\ cpt = [nreq |-> 0, ncmd |-> 0, netapes |-> 0, nput |-> 0]

(***************************************************************************)
(* ajouter_event: put on the queue, append to the history, test the        *)
(* length, and when it is over the limit read the last 100 and store them. *)
(* A thread that called it is at pub /= "none" until it returns.           *)
(***************************************************************************)
Publier(r, ev) == [r EXCEPT !.pub = "put", !.ev = ev]

\* self.events_queue.put(event)
AjouterPut(t) ==
  /\ th[t].pub = "put"
  /\ events_queue' = Append(events_queue, [th[t].ev EXCEPT !.rang = cpt.nput + 1])
  /\ th' = [th EXCEPT ![t].pub = "append", ![t].ev.rang = cpt.nput + 1]
  /\ cpt' = [cpt EXCEPT !.nput = @ + 1]
  /\ UNCHANGED <<fours, commandes, tas, historique, compteur_commandes>>

\* self.historique.append(event)
AjouterAppend(t) ==
  /\ th[t].pub = "append"
  /\ historique' = Append(historique, th[t].ev)
  /\ th' = [th EXCEPT ![t].pub = "len", ![t].ev = None]
  /\ UNCHANGED <<fours, commandes, tas, events_queue, compteur_commandes, cpt>>

\* if len(self.historique) > 100
TropLong(h) == Len(h) > MaxHistorique

AjouterLen(t) ==
  /\ th[t].pub = "len"
  /\ th' = [th EXCEPT ![t].pub = IF TropLong(historique) THEN "slice" ELSE "none"]
  /\ UNCHANGED <<cuisine, cpt>>

\* self.historique[-100:], the right-hand side of the assignment
AjouterSlice(t) ==
  /\ th[t].pub = "slice"
  /\ th' = [th EXCEPT ![t].pub = "store", ![t].tmph = Derniers(historique, MaxHistorique)]
  /\ UNCHANGED <<cuisine, cpt>>

\* self.historique = ...
AjouterStore(t) ==
  /\ th[t].pub = "store"
  /\ historique' = th[t].tmph
  /\ th' = [th EXCEPT ![t].pub = "none", ![t].tmph = <<>>]
  /\ UNCHANGED <<fours, commandes, tas, events_queue, compteur_commandes, cpt>>

(***************************************************************************)
(* trouver_four_disponible: one read of an oven's statut per iteration.    *)
(* Gives the thread's next locals: the oven found (and the place `trouve`  *)
(* to go on from), the next index, or `absent` when the loop ends.         *)
(***************************************************************************)
Disponible(four) == fours[four].statut = "disponible"

\* The scan ending one oven early (the last oven never looked at): what C14
\* rules out.
TrouverSansDernier(r, trouve, absent) ==
  IF Disponible(r.i) THEN [r EXCEPT !.four_id = r.i, !.i = 0, !.pc = trouve]
  ELSE IF r.i < NbFours - 1 THEN [r EXCEPT !.i = r.i + 1]
  ELSE absent

\* The scan taking any oven that is not cooking, a reserved one included:
\* what C17 rules out.
TrouverNonOccupe(r, trouve, absent) ==
  IF fours[r.i].statut # "cuisson" THEN [r EXCEPT !.four_id = r.i, !.i = 0, !.pc = trouve]
  ELSE IF r.i < NbFours THEN [r EXCEPT !.i = r.i + 1]
  ELSE absent

TrouverPas(r, trouve, absent) ==
  IF Disponible(r.i) THEN [r EXCEPT !.four_id = r.i, !.i = 0, !.pc = trouve]
  ELSE IF r.i < NbFours THEN [r EXCEPT !.i = r.i + 1]
  ELSE absent

(***************************************************************************)
(* POST /api/flan/prechauffage                                             *)
(***************************************************************************)
\* forme tells the shape of the JSON body: "ok" for an object (or no body),
\* "corps" for a body that is an array, a string or a number, on which
\* data.get raises AttributeError at line 280.
PrechauffageDebut(h, temperature, forme) ==
  /\ th[h].pc = "idle"
  /\ th' = [th EXCEPT ![h] =
       IF forme = "corps" THEN [Repos("p_crash") EXCEPT !.res = 500]
       ELSE [Repos("p_scan") EXCEPT !.i = 1, !.arg = temperature]]
  /\ cpt' = [cpt EXCEPT !.nreq = @ + 1]
  /\ UNCHANGED cuisine

PrechauffageTrouver(h) ==
  /\ th[h].pc = "p_scan"
  /\ th' = [th EXCEPT ![h] =
       TrouverPas(th[h], "p_reserver",
                  Publier([Repos("ret") EXCEPT !.res = 302],
                          Event("erreur", None, "prechauffage")))]
  /\ UNCHANGED <<cuisine, cpt>>

\* cuisine.fours[four_id]["statut"] = "prechauffage"
PrechauffageReserver(h) ==
  /\ th[h].pc = "p_reserver"
  /\ fours' = [fours EXCEPT ![th[h].four_id].statut = "prechauffage"]
  /\ th' = [th EXCEPT ![h].pc = "p_temperature"]
  /\ UNCHANGED <<commandes, tas, historique, events_queue, compteur_commandes, cpt>>

\* cuisine.fours[four_id]["temperature"] = temperature, then the event
PrechauffageTemperature(h) ==
  /\ th[h].pc = "p_temperature"
  /\ fours' = [fours EXCEPT ![th[h].four_id].temperature = th[h].arg]
  /\ th' = [th EXCEPT ![h] = Publier([@ EXCEPT !.pc = "p_pret"],
                                     Event("prechauffage", None, ""))]
  /\ UNCHANGED <<commandes, tas, historique, events_queue, compteur_commandes, cpt>>

\* time.sleep(0.3); cuisine.fours[four_id]["statut"] = "pret", and the 200 response
PrechauffagePret(h) ==
  /\ th[h].pc = "p_pret"
  /\ th[h].pub = "none"
  /\ fours' = [fours EXCEPT ![th[h].four_id].statut = "pret"]
  /\ th' = [th EXCEPT ![h] = [Repos("ret") EXCEPT !.res = 200, !.four_id = th[h].four_id]]
  /\ UNCHANGED <<commandes, tas, historique, events_queue, compteur_commandes, cpt>>

(***************************************************************************)
(* POST /api/flan/commander                                                *)
(***************************************************************************)
\* The local options of a request of shape forme.
OptionsDe(forme) == IF forme = "options" THEN "autre" ELSE "dict"

\* commander without its test of the recipe (lines 352-360 left out): what
\* C13 rules out.
CommanderSansRecette(h, recette, four, forme) ==
  /\ th[h].pc = "idle"
  /\ th' = [th EXCEPT ![h] =
       IF forme \in {"corps", "four_id"} THEN [Repos("c_crash") EXCEPT !.res = 500]
       ELSE IF four = Aucun \/ four \notin Fours
         THEN [Repos("c_scan") EXCEPT !.recette = recette, !.i = 1, !.auto = TRUE,
                                      !.options = OptionsDe(forme)]
       ELSE [Repos("c_verif") EXCEPT !.recette = recette, !.four_id = four,
                                     !.options = OptionsDe(forme)]]
  /\ cpt' = [cpt EXCEPT !.nreq = @ + 1, !.ncmd = @ + 1]
  /\ UNCHANGED cuisine

\* forme tells which part of the JSON body, if any, has a type the handler
\* fails on; recette and four are the values of the parts that have not:
\*   "ok"       an object (or no body) with usable values;
\*   "corps"    the body is an array, a string or a number: data.get raises
\*              AttributeError at line 346;
\*   "recette"  recette is an array or an object: `recette not in
\*              cuisine.recettes` raises TypeError (unhashable) at line 352;
\*   "four_id"  four_id is a non-empty array or object: `four_id not in
\*              cuisine.fours` raises TypeError at line 363;
\*   "options"  options is null, a string, a number or an array:
\*              options.get raises AttributeError at line 412.
CommanderDebut(h, recette, four, forme) ==
  /\ th[h].pc = "idle"
  /\ th' = [th EXCEPT ![h] =
       IF forme \in {"corps", "recette"} THEN [Repos("c_crash") EXCEPT !.res = 500]
       ELSE IF recette \notin Recettes
         THEN Publier([Repos("ret") EXCEPT !.res = 404], Event("erreur", None, "commande"))
       ELSE IF forme = "four_id" THEN [Repos("c_crash") EXCEPT !.res = 500]
       ELSE IF four = Aucun \/ four \notin Fours
         THEN [Repos("c_scan") EXCEPT !.recette = recette, !.i = 1, !.auto = TRUE,
                                      !.options = OptionsDe(forme)]
       ELSE [Repos("c_verif") EXCEPT !.recette = recette, !.four_id = four,
                                     !.options = OptionsDe(forme)]]
  /\ cpt' = [cpt EXCEPT !.nreq = @ + 1, !.ncmd = @ + 1]
  /\ UNCHANGED cuisine

CommanderTrouver(h) ==
  /\ th[h].pc = "c_scan"
  /\ th' = [th EXCEPT ![h] = TrouverPas(th[h], "c_verif", [Repos("ret") EXCEPT !.res = 503])]
  /\ UNCHANGED <<cuisine, cpt>>

\* cuisine.fours[four_id]["statut"] in ["pret", "disponible"]
FourPret(four) == fours[four].statut \in {"pret", "disponible"}

CommanderVerif(h) ==
  /\ th[h].pc = "c_verif"
  /\ th' = [th EXCEPT ![h] = IF FourPret(th[h].four_id) THEN [@ EXCEPT !.pc = "id_lire"]
                             ELSE [Repos("ret") EXCEPT !.res = 302]]
  /\ UNCHANGED <<cuisine, cpt>>

\* nouvelle_commande_id: self.compteur_commandes += 1 is a read, then a write;
\* the return statement reads the counter again.
NouvelleIdLire(h) ==
  /\ th[h].pc = "id_lire"
  /\ th' = [th EXCEPT ![h].tmp = compteur_commandes, ![h].pc = "id_ecrire"]
  /\ UNCHANGED <<cuisine, cpt>>

NouvelleIdEcrire(h) ==
  /\ th[h].pc = "id_ecrire"
  /\ compteur_commandes' = th[h].tmp + 1
  /\ th' = [th EXCEPT ![h].tmp = 0, ![h].pc = "id_retour"]
  /\ UNCHANGED <<fours, commandes, tas, historique, events_queue, cpt>>

NouvelleIdRetour(h) ==
  /\ th[h].pc = "id_retour"
  /\ th' = [th EXCEPT ![h].cid = FormatId(compteur_commandes), ![h].pc = "c_enreg"]
  /\ UNCHANGED <<cuisine, cpt>>

\* The dict `commande` of commander.
NouvelleCommande(id, recette, four) ==
  [id |-> id, recette |-> recette, four_id |-> four, statut |-> "en_preparation",
   progression |-> 0, etapes |-> <<>>, fin |-> FALSE]

\* cuisine.commandes[commande_id] = commande
CommanderEnregistrer(h) ==
  /\ th[h].pc = "c_enreg"
  /\ tas' = Append(tas, NouvelleCommande(th[h].cid, th[h].recette, th[h].four_id))
  /\ commandes' = [c \in DOMAIN commandes \cup {th[h].cid} |->
                     IF c = th[h].cid THEN Len(tas) + 1 ELSE commandes[c]]
  /\ th' = [th EXCEPT ![h].pc = "c_cuisson", ![h].commande = Len(tas) + 1]
  /\ UNCHANGED <<fours, historique, events_queue, compteur_commandes, cpt>>

\* cuisine.fours[four_id]["statut"] = "cuisson"
CommanderCuisson(h) ==
  /\ th[h].pc = "c_cuisson"
  /\ fours' = [fours EXCEPT ![th[h].four_id].statut = "cuisson"]
  /\ th' = [th EXCEPT ![h].pc = "c_lier"]
  /\ UNCHANGED <<commandes, tas, historique, events_queue, compteur_commandes, cpt>>

\* cuisine.fours[four_id]["commande_en_cours"] = commande_id, then the packet
\* (options.get raises when options is not a dict: the request ends as a 500,
\* with no event and no pipeline thread) and the event
CommanderLier(h) ==
  /\ th[h].pc = "c_lier"
  /\ fours' = [fours EXCEPT ![th[h].four_id].commande_en_cours = th[h].cid]
  /\ th' = [th EXCEPT ![h] =
       IF th[h].options # "dict" THEN [Repos("c_crash") EXCEPT !.res = 500]
       ELSE Publier([@ EXCEPT !.pc = "c_lancer"], Event("commande", th[h].cid, ""))]
  /\ UNCHANGED <<commandes, tas, historique, events_queue, compteur_commandes, cpt>>

\* The first thread slot not yet started.
TacheLibre ==
  CHOOSE t \in Taches : th[t].pc = "absent" /\ \A u \in Taches : u < t => th[u].pc # "absent"

\* thread.start(), and the 201 response.
CommanderLancer(h) ==
  /\ th[h].pc = "c_lancer"
  /\ th[h].pub = "none"
  /\ th' = [th EXCEPT ![h] = [Repos("ret") EXCEPT !.res = 201, !.cid = th[h].cid,
                                                  !.four_id = th[h].four_id,
                                                  !.commande = th[h].commande],
                      ![TacheLibre] = [Repos("t_init") EXCEPT !.cid = th[h].cid,
                                                              !.ordre = th[h].commande]]
  /\ UNCHANGED <<cuisine, cpt>>

\* The response is sent (or the exception became a 500): the thread is free
\* for the next request.
Retour(h) ==
  /\ th[h].pc \in {"ret", "crash", "p_crash", "c_crash"}
  /\ th[h].pub = "none"
  /\ th' = [th EXCEPT ![h] = Repos("idle")]
  /\ UNCHANGED <<cuisine, cpt>>

(***************************************************************************)
(* simuler_cuisson(commande_id), one thread per accepted order.            *)
(***************************************************************************)
\* if commande_id not in cuisine.commandes: return
\* commande = cuisine.commandes[commande_id]
TacheInit(t) ==
  /\ th[t].pc = "t_init"
  /\ th' = [th EXCEPT ![t] = IF th[t].cid \in DOMAIN commandes
                               THEN [@ EXCEPT !.commande = commandes[th[t].cid], !.k = 1,
                                              !.pc = "t_statut"]
                               ELSE [Repos("fini") EXCEPT !.ordre = th[t].ordre]]
  /\ UNCHANGED <<cuisine, cpt>>

\* (time.sleep of the stage before;) if commande_id not in cuisine.commandes: return
\* commande["statut"] = etape_id
TacheStatut(t) ==
  /\ th[t].pc = "t_statut"
  /\ th[t].pub = "none"
  /\ IF th[t].cid \in DOMAIN commandes
       THEN /\ tas' = [tas EXCEPT ![th[t].commande].statut = Etapes[th[t].k].id]
            /\ th' = [th EXCEPT ![t].pc = "t_prog"]
       ELSE /\ th' = [th EXCEPT ![t] = [Repos("fini") EXCEPT !.ordre = th[t].ordre]]
            /\ UNCHANGED tas
  /\ cpt' = [cpt EXCEPT !.netapes = @ + 1]
  /\ UNCHANGED <<fours, commandes, historique, events_queue, compteur_commandes>>

\* commande["progression"] = progression
TacheProgression(t) ==
  /\ th[t].pc = "t_prog"
  /\ tas' = [tas EXCEPT ![th[t].commande].progression = Etapes[th[t].k].progression]
  /\ th' = [th EXCEPT ![t].pc = "t_etape"]
  /\ UNCHANGED <<fours, commandes, historique, events_queue, compteur_commandes, cpt>>

\* commande["etapes"].append(...), then the progression event; the loop goes on
\* to the next stage, or ends after the last.
TacheEtape(t) ==
  /\ th[t].pc = "t_etape"
  /\ tas' = [tas EXCEPT ![th[t].commande].etapes = Append(@, Etapes[th[t].k].id)]
  /\ th' = [th EXCEPT ![t] =
       Publier(IF th[t].k < Len(Etapes) THEN [@ EXCEPT !.k = th[t].k + 1, !.pc = "t_statut"]
               ELSE [@ EXCEPT !.k = 0, !.pc = "t_termine"],
               Event("progression", th[t].cid, Etapes[th[t].k].id))]
  /\ UNCHANGED <<fours, commandes, historique, events_queue, compteur_commandes, cpt>>

\* (time.sleep of the last stage;) commande["statut"] = "termine"
TacheTermine(t) ==
  /\ th[t].pc = "t_termine"
  /\ th[t].pub = "none"
  /\ tas' = [tas EXCEPT ![th[t].commande].statut = "termine"]
  /\ th' = [th EXCEPT ![t].pc = "t_cent"]
  /\ UNCHANGED <<fours, commandes, historique, events_queue, compteur_commandes, cpt>>

\* commande["progression"] = 100
TacheCent(t) ==
  /\ th[t].pc = "t_cent"
  /\ tas' = [tas EXCEPT ![th[t].commande].progression = 100]
  /\ th' = [th EXCEPT ![t].pc = "t_fin"]
  /\ UNCHANGED <<fours, commandes, historique, events_queue, compteur_commandes, cpt>>

\* commande["fin"] = time.time()
TacheFin(t) ==
  /\ th[t].pc = "t_fin"
  /\ tas' = [tas EXCEPT ![th[t].commande].fin = TRUE]
  /\ th' = [th EXCEPT ![t].pc = "t_liberer"]
  /\ UNCHANGED <<fours, commandes, historique, events_queue, compteur_commandes, cpt>>

\* four_id = commande["four_id"]; cuisine.fours[four_id]["statut"] = "disponible"
TacheLiberer(t) ==
  /\ th[t].pc = "t_liberer"
  /\ LET four == tas[th[t].commande].four_id
     IN  /\ fours' = [fours EXCEPT ![four].statut = "disponible"]
         /\ th' = [th EXCEPT ![t].pc = "t_delier", ![t].four_id = four]
  /\ UNCHANGED <<commandes, tas, historique, events_queue, compteur_commandes, cpt>>

\* cuisine.fours[four_id]["commande_en_cours"] = None, then the termine event
TacheDelier(t) ==
  /\ th[t].pc = "t_delier"
  /\ fours' = [fours EXCEPT ![th[t].four_id].commande_en_cours = None]
  /\ th' = [th EXCEPT ![t] = Publier([@ EXCEPT !.pc = "t_sortie"],
                                     Event("termine", th[t].cid, ""))]
  /\ UNCHANGED <<commandes, tas, historique, events_queue, compteur_commandes, cpt>>

\* simuler_cuisson returns: the thread ends.
TacheSortie(t) ==
  /\ th[t].pc = "t_sortie"
  /\ th[t].pub = "none"
  /\ th' = [th EXCEPT ![t] = [Repos("fini") EXCEPT !.cid = th[t].cid, !.ordre = th[t].ordre,
                                                   !.commande = th[t].commande]]
  /\ UNCHANGED <<cuisine, cpt>>

(***************************************************************************)
(* GET /api/flan/commande/<commande_id>                                    *)
(***************************************************************************)
\* if commande_id not in cuisine.commandes: 404
\* commande = cuisine.commandes[commande_id]
StatutDebut(h, id) ==
  /\ th[h].pc = "idle"
  /\ th' = [th EXCEPT ![h] = IF id \in DOMAIN commandes
                               THEN [Repos("s_statut") EXCEPT !.cid = id,
                                                              !.commande = commandes[id]]
                               ELSE [Repos("ret") EXCEPT !.res = 404, !.cid = id]]
  /\ cpt' = [cpt EXCEPT !.nreq = @ + 1]
  /\ UNCHANGED cuisine

\* if commande["statut"] == "termine"
StatutLire(h) ==
  /\ th[h].pc = "s_statut"
  /\ th' = [th EXCEPT ![h].pc = IF tas[th[h].commande].statut = "termine" THEN "s_pret"
                                ELSE "s_encours"]
  /\ UNCHANGED <<cuisine, cpt>>

\* The FLAN_PRET view: commande['fin'] - commande['debut'] raises KeyError
\* when the order has no "fin" yet, and the request ends as a 500.
StatutPret(h) ==
  /\ th[h].pc = "s_pret"
  /\ th' = [th EXCEPT ![h] = IF tas[th[h].commande].fin
                               THEN [@ EXCEPT !.pc = "ret", !.res = 200, !.out = <<"FLAN_PRET">>]
                               ELSE [@ EXCEPT !.pc = "crash", !.res = 500]]
  /\ UNCHANGED <<cuisine, cpt>>

\* The EN_COURS view: the last of commande["etapes"] and commande["progression"]
StatutEnCours(h) ==
  /\ th[h].pc = "s_encours"
  /\ th' = [th EXCEPT ![h] = [@ EXCEPT !.pc = "ret", !.res = 200,
                                       !.out = <<"EN_COURS", tas[th[h].commande].progression>>]]
  /\ UNCHANGED <<cuisine, cpt>>

(***************************************************************************)
(* GET /api/flan/historique?limit=                                         *)
(***************************************************************************)
HistoriqueDebut(h, limit) ==
  /\ th[h].pc = "idle"
  /\ th' = [th EXCEPT ![h] = [Repos("h_lire") EXCEPT !.arg = limit]]
  /\ cpt' = [cpt EXCEPT !.nreq = @ + 1]
  /\ UNCHANGED cuisine

\* "evenements": cuisine.historique[-limit:]  (the "total" that follows reads
\* the length and decides nothing)
HistoriqueLire(h) ==
  /\ th[h].pc = "h_lire"
  /\ th' = [th EXCEPT ![h] = [@ EXCEPT !.pc = "ret", !.res = 200,
                                       !.out = Derniers(historique, th[h].arg)]]
  /\ UNCHANGED <<cuisine, cpt>>

(***************************************************************************)
(* GET /api/flan/events: the generator of events_stream.  Every stream     *)
(* reads the one queue cuisine.events_queue; Queue.get removes the item it *)
(* returns.  A stream never ends; out holds what it has yielded so far,    *)
(* and the model follows it for its first MaxRecus items.  arg is not a    *)
(* local: it is the number of events put on the queue before the stream    *)
(* was opened.                                                             *)
(***************************************************************************)
Heartbeat == [type |-> "heartbeat", commande_id |-> None, etape |-> "", rang |-> 0]

\* No request is being served, no pipeline is running, nothing is being
\* published.
Calme ==
  /\ \A h \in Handlers : th[h].pc \in {"idle", "e_get"}
  /\ \A t \in Taches : th[t].pc \in {"absent", "fini"}
  /\ \A t \in Threads : th[t].pub = "none"

EventsDebut(h) ==
  /\ th[h].pc = "idle"
  /\ th' = [th EXCEPT ![h] = [Repos("e_get") EXCEPT !.arg = cpt.nput, !.calme = Calme]]
  /\ cpt' = [cpt EXCEPT !.nreq = @ + 1]
  /\ UNCHANGED cuisine

\* event = cuisine.events_queue.get(timeout=30); yield the event
EventsGet(h) ==
  /\ th[h].pc = "e_get"
  /\ Len(th[h].out) < MaxRecus
  /\ events_queue # <<>>
  /\ events_queue' = Tail(events_queue)
  /\ th' = [th EXCEPT ![h].out = Append(@, Head(events_queue))]
  /\ UNCHANGED <<fours, commandes, tas, historique, compteur_commandes, cpt>>

\* The queue stayed empty for the 30 s of the timeout: get raises Empty, and
\* the except branch yields a heartbeat.
EventsHeartbeat(h) ==
  /\ th[h].pc = "e_get"
  /\ Len(th[h].out) < MaxRecus
  /\ events_queue = <<>>
  /\ th' = [th EXCEPT ![h].out = Append(@, Heartbeat)]
  /\ UNCHANGED <<cuisine, cpt>>

(***************************************************************************)
(* Specifications.                                                         *)
(***************************************************************************)

\* The steps of the threads up to the end of a pipeline's loop.
Pas ==
  \/ \E t \in Threads : AjouterPut(t)
  \/ \E t \in Threads : AjouterAppend(t)
  \/ \E t \in Threads : AjouterLen(t)
  \/ \E h \in Handlers : PrechauffageTrouver(h)
  \/ \E h \in Handlers : PrechauffageReserver(h)
  \/ \E h \in Handlers : PrechauffageTemperature(h)
  \/ \E h \in Handlers : PrechauffagePret(h)
  \/ \E h \in Handlers : CommanderTrouver(h)
  \/ \E h \in Handlers : CommanderVerif(h)
  \/ \E h \in Handlers : NouvelleIdLire(h)
  \/ \E h \in Handlers : NouvelleIdEcrire(h)
  \/ \E h \in Handlers : NouvelleIdRetour(h)
  \/ \E h \in Handlers : CommanderEnregistrer(h)
  \/ \E h \in Handlers : CommanderCuisson(h)
  \/ \E h \in Handlers : CommanderLier(h)
  \/ \E h \in Handlers : CommanderLancer(h)
  \/ \E h \in Handlers : StatutLire(h)
  \/ \E h \in Handlers : StatutEnCours(h)
  \/ \E h \in Handlers : HistoriqueLire(h)
  \/ \E h \in Handlers : Retour(h)
  \/ \E t \in Taches : TacheInit(t)
  \/ \E t \in Taches : TacheProgression(t)
  \/ \E t \in Taches : TacheEtape(t)

\* The end of a pipeline, and the reader of a finished order.
PasFin ==
  \/ \E t \in Taches : TacheTermine(t)
  \/ \E t \in Taches : TacheCent(t)
  \/ \E t \in Taches : TacheFin(t)
  \/ \E t \in Taches : TacheLiberer(t)
  \/ \E t \in Taches : TacheDelier(t)
  \/ \E t \in Taches : TacheSortie(t)
  \/ \E h \in Handlers : StatutPret(h)

\* The truncation of ajouter_event, which runs once the history is full.
PasTronquer ==
  \/ \E t \in Threads : AjouterSlice(t)
  \/ \E t \in Threads : AjouterStore(t)

\* The inputs of the requests.
InRecettes == {"flan_vanille", "tarte_citron"}
InFours == {Aucun, 1, FourInconnu}
InTemperatures == {180}
InIds == {FormatId(1), FormatId(2)}
InLimits == {-1, 0, 1, 2}

InFormes == {"ok", "corps", "recette", "four_id", "options"}
InFormesPrechauffage == {"ok", "corps"}

SoumettreUne ==
  \E h \in Handlers, r \in InRecettes, f \in InFours, m \in InFormes : CommanderDebut(h, r, f, m)

AutresRequetes ==
  \/ \E h \in Handlers, c \in InTemperatures, m \in InFormesPrechauffage :
       PrechauffageDebut(h, c, m)
  \/ \E h \in Handlers, id \in InIds : StatutDebut(h, id)
  \/ \E h \in Handlers, l \in InLimits : HistoriqueDebut(h, l)

(***************************************************************************)
(* Spec: the request threads race with each other and with the first       *)
(* stages of the pipelines.  Any MaxRequetes requests; the pipelines begin *)
(* MaxEtapes stages in all, so no pipeline reaches its end here.           *)
(***************************************************************************)
Next ==
  \/ Pas
  \/ cpt.nreq < MaxRequetes /\ SoumettreUne
  \/ cpt.nreq < MaxRequetes /\ AutresRequetes
  \/ cpt.netapes < MaxEtapes /\ \E t \in Taches : TacheStatut(t)

Spec == Init /\ [][Next]_vars

(***************************************************************************)
(* SpecCuisson: MaxCommandes orders run their whole pipeline, while the    *)
(* other requests of the MaxRequetes are served.                           *)
(***************************************************************************)
NextCuisson ==
  \/ Pas
  \/ PasFin
  \/ \E t \in Taches : TacheStatut(t)
  \/ cpt.nreq < MaxRequetes /\ cpt.ncmd < MaxCommandes /\ SoumettreUne
  \/ cpt.nreq < MaxRequetes /\ AutresRequetes

SpecCuisson == Init /\ [][NextCuisson]_vars

\* The threads are scheduled by the operating system: a thread that can take
\* its next step takes it in the end.  No request is bound to arrive.
Equite ==
  /\ \A t \in Threads : WF_vars(AjouterPut(t) \/ AjouterAppend(t) \/ AjouterLen(t))
  /\ \A h \in Handlers :
       WF_vars(\/ PrechauffageTrouver(h) \/ PrechauffageReserver(h)
               \/ PrechauffageTemperature(h) \/ PrechauffagePret(h)
               \/ CommanderTrouver(h) \/ CommanderVerif(h) \/ NouvelleIdLire(h)
               \/ NouvelleIdEcrire(h) \/ NouvelleIdRetour(h) \/ CommanderEnregistrer(h)
               \/ CommanderCuisson(h) \/ CommanderLier(h) \/ CommanderLancer(h)
               \/ StatutLire(h) \/ StatutEnCours(h) \/ StatutPret(h)
               \/ HistoriqueLire(h) \/ Retour(h))
  /\ \A t \in Taches :
       WF_vars(\/ TacheInit(t) \/ TacheStatut(t) \/ TacheProgression(t) \/ TacheEtape(t)
               \/ TacheTermine(t) \/ TacheCent(t) \/ TacheFin(t) \/ TacheLiberer(t)
               \/ TacheDelier(t) \/ TacheSortie(t))

SpecCuissonEquitable == SpecCuisson /\ Equite

(***************************************************************************)
(* SpecPlein: as Spec, from the state in which NbPrefix events have been   *)
(* published by requests served one after the other (unknown recipes), no  *)
(* subscriber having read the queue.                                       *)
(***************************************************************************)
Prefixe == [n \in 1..NbPrefix |-> [Event("erreur", None, "commande") EXCEPT !.rang = n]]

InitPlein ==
  /\ fours = [f \in Fours |-> FourInit]
  /\ commandes = <<>>
  /\ tas = <<>>
  /\ historique = Derniers(Prefixe, MaxHistorique)
  /\ events_queue = Prefixe
  /\ compteur_commandes = 0
  /\ th = [t \in Threads |-> IF t \in Handlers THEN Repos("idle") ELSE Repos("absent")]
  /\ cpt = [nreq |-> 0, ncmd |-> 0, netapes |-> 0, nput |-> NbPrefix]

NextPlein ==
  \/ Pas
  \/ PasTronquer
  \/ cpt.nreq < MaxRequetes /\ SoumettreUne
  \/ cpt.nreq < MaxRequetes /\ AutresRequetes
  \/ cpt.netapes < MaxEtapesPlein /\ \E t \in Taches : TacheStatut(t)

SpecPlein == InitPlein /\ [][NextPlein]_vars

(***************************************************************************)
(* SpecFlux: event streams beside one submission and the first stages of   *)
(* its pipeline.                                                           *)
(***************************************************************************)
\* The steps of ajouter_event, of commander and of the pipeline's loop.
PasCommande ==
  \/ \E t \in Threads : AjouterPut(t)
  \/ \E t \in Threads : AjouterAppend(t)
  \/ \E t \in Threads : AjouterLen(t)
  \/ \E h \in Handlers : CommanderTrouver(h)
  \/ \E h \in Handlers : CommanderVerif(h)
  \/ \E h \in Handlers : NouvelleIdLire(h)
  \/ \E h \in Handlers : NouvelleIdEcrire(h)
  \/ \E h \in Handlers : NouvelleIdRetour(h)
  \/ \E h \in Handlers : CommanderEnregistrer(h)
  \/ \E h \in Handlers : CommanderCuisson(h)
  \/ \E h \in Handlers : CommanderLier(h)
  \/ \E h \in Handlers : CommanderLancer(h)
  \/ \E h \in Handlers : Retour(h)
  \/ \E t \in Taches : TacheInit(t)
  \/ \E t \in Taches : TacheProgression(t)
  \/ \E t \in Taches : TacheEtape(t)

PasFlux ==
  \/ \E h \in Handlers : EventsGet(h)
  \/ \E h \in Handlers : EventsHeartbeat(h)

NextFlux ==
  \/ PasCommande
  \/ PasFlux
  \/ cpt.nreq < MaxRequetesFlux /\ cpt.ncmd < MaxCommandes /\ SoumettreUne
  \/ cpt.nreq < MaxRequetesFlux /\ \E h \in Handlers : EventsDebut(h)
  \/ cpt.netapes < MaxEtapesFlux /\ \E t \in Taches : TacheStatut(t)

SpecFlux == Init /\ [][NextFlux]_vars

(***************************************************************************)
(* SpecComplet: the pool exhausted.  The first state is the one after      *)
(* three accepted submissions, of CMD-0001 on four_1, CMD-0002 on four_2   *)
(* and CMD-0003 on four_3, whose pipeline threads have fetched their order *)
(* and have not begun their first stage.  MaxPipelinesComplet of the       *)
(* pipelines run, to their end, and auto-select submissions arrive         *)
(* meanwhile.                                                              *)
(***************************************************************************)
Occupes == Fours

InitComplet ==
  /\ fours = [f \in Fours |->
       IF f \in Occupes
         THEN [statut |-> "cuisson", temperature |-> 0, commande_en_cours |-> FormatId(f)]
         ELSE FourInit]
  /\ tas = [i \in Occupes |-> NouvelleCommande(FormatId(i), "flan_vanille", i)]
  /\ commandes = [c \in {FormatId(i) : i \in Occupes} |->
                    CHOOSE i \in Occupes : FormatId(i) = c]
  /\ historique = [i \in Occupes |-> [Event("commande", FormatId(i), "") EXCEPT !.rang = i]]
  /\ events_queue = [i \in Occupes |-> [Event("commande", FormatId(i), "") EXCEPT !.rang = i]]
  /\ compteur_commandes = NbFours
  /\ th = [t \in Threads |->
       IF t \in Handlers THEN Repos("idle")
       ELSE IF t - NumHandlers \in Occupes
         THEN [Repos("t_statut") EXCEPT !.cid = FormatId(t - NumHandlers), !.k = 1,
                                        !.commande = t - NumHandlers,
                                        !.ordre = t - NumHandlers]
       ELSE Repos("absent")]
  /\ cpt = [nreq |-> 0, ncmd |-> 0, netapes |-> 0, nput |-> NbFours]

\* The end of a pipeline.
PasFinTache ==
  \/ \E t \in Taches : TacheTermine(t)
  \/ \E t \in Taches : TacheCent(t)
  \/ \E t \in Taches : TacheFin(t)
  \/ \E t \in Taches : TacheLiberer(t)
  \/ \E t \in Taches : TacheDelier(t)
  \/ \E t \in Taches : TacheSortie(t)

SoumettreAuto == \E h \in Handlers : CommanderDebut(h, "flan_vanille", Aucun, "ok")

\* Pipeline thread t has begun its first stage; the pipelines that have.
Commence(t) ==
  /\ th[t].pc \notin {"absent", "t_init"}
  /\ ~(th[t].pc = "t_statut" /\ th[t].k = 1)

Commencees == {t \in Taches : Commence(t)}

NextComplet ==
  \/ PasCommande
  \/ PasFinTache
  \/ \E t \in Taches :
       /\ Commence(t) \/ Cardinality(Commencees) < MaxPipelinesComplet
       /\ TacheStatut(t)
  \/ cpt.nreq < MaxRequetesComplet /\ SoumettreAuto

SpecComplet == InitComplet /\ [][NextComplet]_vars

(***************************************************************************)
(* SpecPool: reserve calls and auto-select submissions until no oven is    *)
(* idle, and beyond.                                                       *)
(***************************************************************************)
PasPool ==
  \/ \E h \in Handlers : PrechauffageTrouver(h)
  \/ \E h \in Handlers : PrechauffageReserver(h)
  \/ \E h \in Handlers : PrechauffageTemperature(h)
  \/ \E h \in Handlers : PrechauffagePret(h)

NextPool ==
  \/ PasCommande
  \/ PasPool
  \/ cpt.nreq < MaxReserves
       /\ \E h \in Handlers, c \in InTemperatures : PrechauffageDebut(h, c, "ok")
  \/ cpt.nreq < MaxReserves /\ cpt.ncmd < MaxCommandes /\ SoumettreAuto
  \/ cpt.netapes < MaxEtapesPool /\ \E t \in Taches : TacheStatut(t)

SpecPool == Init /\ [][NextPool]_vars

(***************************************************************************)
(* SpecDeux: two auto-select submissions and their pipelines, of which     *)
(* MaxPipelinesDeux run, to their end.                                     *)
(***************************************************************************)
NextDeux ==
  \/ PasCommande
  \/ PasFinTache
  \/ \E t \in Taches :
       /\ Commence(t) \/ Cardinality(Commencees) < MaxPipelinesDeux
       /\ TacheStatut(t)
  \/ cpt.nreq < MaxRequetes /\ SoumettreAuto

SpecDeux == Init /\ [][NextDeux]_vars

(***************************************************************************)
(* The claims.                                                             *)
(***************************************************************************)

\* The orders created so far (the dicts built by commander).
Ordres == DOMAIN tas

\* The pipeline threads started and not yet returned.
EnCours(t) == th[t].pc \notin {"absent", "fini"}

\* C1: no oven is bound to two accepted orders whose pipelines have not yet
\* completed: two accepted submissions whose pipeline threads are both still
\* running never hold the same oven.
C1_UnFourUneCommande ==
  \A t, u \in Taches :
    (t # u /\ EnCours(t) /\ EnCours(u)) => tas[th[t].ordre].four_id # tas[th[u].ordre].four_id

\* C2: in every reachable state every oven has statut "cuisson" if and only if
\* its commande_en_cours is not None.
C2_CuissonSsiLie ==
  \A f \in Fours : (fours[f].statut = "cuisson") <=> (fours[f].commande_en_cours # None)

\* C3: a status reader that has seen statut "termine" finds "fin" set, and no
\* status request ends in an exception.
C3_LecteurSansEchec ==
  \A h \in Handlers :
    /\ th[h].pc # "crash"
    /\ th[h].pc = "s_pret" => tas[th[h].commande].fin

\* C4: every accepted submission has an id of its own, and the table entry of a
\* recorded order is never replaced by a later submission: each order created is
\* still the one recorded under its id, and no two orders share an id.
C4_IdsFrais ==
  /\ \A i, j \in Ordres : i # j => tas[i].id # tas[j].id
  /\ \A i \in Ordres : commandes[tas[i].id] = i

\* C5: for every order, progression is 100 if and only if statut is "termine".
C5_CentSsiTermine ==
  \A i \in Ordres : (tas[i].progression = 100) <=> (tas[i].statut = "termine")

\* The stage that follows a stage in the order's state machine.
StatutSuivant(st) ==
  IF st = "en_preparation" THEN Etapes[1].id
  ELSE IF \E k \in 1..(Len(Etapes) - 1) : Etapes[k].id = st
    THEN Etapes[(CHOOSE k \in 1..(Len(Etapes) - 1) : Etapes[k].id = st) + 1].id
  ELSE IF st = Etapes[Len(Etapes)].id THEN "termine"
  ELSE "aucun"

\* The first n stage ids of the table.
PremieresEtapes(n) == [k \in 1..n |-> Etapes[k].id]

\* C6: every change of an order's statut goes to the next stage of
\* en_preparation, the seven stages, termine; and its etapes are the ids of the
\* first stages of the table, each once, in the table's order.
C6_EtapesEnOrdre ==
  [][\A i \in Ordres :
       /\ tas'[i].statut # tas[i].statut => tas'[i].statut = StatutSuivant(tas[i].statut)
       /\ Len(tas'[i].etapes) <= Len(Etapes)
       /\ tas'[i].etapes = PremieresEtapes(Len(tas'[i].etapes))]_vars

\* C7: the progression of an order never decreases from one state to the next.
C7_ProgressionCroissante ==
  [][\A i \in Ordres : tas'[i].progression >= tas[i].progression]_vars

\* The order of pipeline thread t is complete and its oven is back to idle with
\* no order bound.
Acheve(t) ==
  /\ th[t].ordre \in Ordres
  /\ LET o == tas[th[t].ordre]
     IN  /\ o.statut = "termine" /\ o.progression = 100 /\ o.fin
         /\ fours[o.four_id].statut = "disponible"
         /\ fours[o.four_id].commande_en_cours = None

\* C8: every accepted order (its pipeline thread has been started) reaches in
\* the end statut "termine" with progression 100 and "fin" set, its oven idle
\* with no order bound.
C8_CommandeAchevee ==
  \A t \in Taches : (th[t].pc = "t_init") ~> Acheve(t)

\* C9: the history never holds more than 100 entries.
C9_HistoriqueBorne == Len(historique) <= MaxHistorique

Min(a, b) == IF a <= b THEN a ELSE b

\* s is the last entries of h.
EstFin(s, h) == Len(s) <= Len(h) /\ s = SubSeq(h, Len(h) - Len(s) + 1, Len(h))

\* C10: for every limit >= 0, the history request answers at most
\* min(limit, 100) entries, which are the last entries of the history.
C10_HistoriqueLimite ==
  [][\A h \in Handlers :
       (th[h].pc = "h_lire" /\ th'[h].pc = "ret" /\ th[h].arg >= 0) =>
          /\ Len(th'[h].out) <= Min(th[h].arg, MaxHistorique)
          /\ EstFin(th'[h].out, historique)]_vars


\* The open event streams, and the events of a sequence.
Abonnes == {h \in Handlers : th[h].pc = "e_get"}

Recus(h) == {th[h].out[i] : i \in 1..Len(th[h].out)}

EnFile == {events_queue[i] : i \in 1..Len(events_queue)}

\* C11: every event published while two streams are open is delivered to
\* both: an event that one subscriber has consumed, published after the other
\* subscribed, has been delivered to the other one or is still waiting to be.
C11_ChaqueAbonne ==
  \A s1, s2 \in Abonnes : \A e \in Recus(s1) :
    (s1 # s2 /\ e.type # "heartbeat" /\ e.rang > th[s1].arg /\ e.rang > th[s2].arg)
      => (e \in Recus(s2) \/ e \in EnFile)

\* A prechauffage request that has succeeded and is returning oven four_id.
ReserveReussie(h) == th[h].pc = "ret" /\ th[h].res = 200 /\ th[h].four_id # Aucun

\* C12: two reserve calls (prechauffage) that are returning at the same time
\* never return the same oven, and at the step where a reserve call succeeds
\* its oven is in statut pret and bound to no order.
C12_ReserveExclusive ==
  [][ /\ \A h, g \in Handlers :
           (h # g /\ ReserveReussie(h)' /\ ReserveReussie(g)') => th'[h].four_id # th'[g].four_id
      /\ \A h \in Handlers :
           (th[h].pc = "p_pret" /\ th'[h].pc = "ret")
             => /\ fours'[th'[h].four_id].statut = "pret"
                /\ fours'[th'[h].four_id].commande_en_cours = None ]_vars

\* A submission refused for its recipe, from the refusal to the response.
RefusRecette(h) == th[h].pc = "ret" /\ th[h].res = 404 /\ th[h].cid = None

\* C13: a submission whose recipe is not in the catalog is answered 404
\* (UnknownRecipe), and no step of it, from its first to its response, changes
\* the order table, the orders, the order-id counter or any oven, whatever
\* oven the request names.
C13_RecetteInconnue ==
  [][\A h \in Handlers :
       /\ \A r \in InRecettes \ Recettes, f \in InFours, m \in {"ok", "four_id", "options"} :
            CommanderDebut(h, r, f, m)
              => /\ RefusRecette(h)'
                 /\ UNCHANGED <<commandes, tas, compteur_commandes, fours>>
       /\ (RefusRecette(h) /\ th'[h] # th[h])
            => UNCHANGED <<commandes, tas, compteur_commandes, fours>> ]_vars

\* A refused submission has published its erreur event and is about to answer,
\* beside an oven that is not idle.
C13_Temoin ==
  \E h \in Handlers :
    /\ RefusRecette(h) /\ th[h].pub = "none"
    /\ \E i \in 1..Len(historique) :
         historique[i].type = "erreur" /\ historique[i].etape = "commande"
    /\ \E f \in Fours : fours[f].statut # "disponible"

\* Every oven is busy; oven f alone has been released and the others are busy.
TousOccupes == \A f \in Fours : fours[f].statut = "cuisson"

SeulLibre(f) ==
  /\ fours[f].statut = "disponible" /\ fours[f].commande_en_cours = None
  /\ \A g \in Fours \ {f} : fours[g].statut = "cuisson"

\* C14: while every oven is busy an auto-select submission selects no oven,
\* creates no order and can only end as 503 (NoResourceAvailable), and 503 comes
\* from nowhere else; once one oven has been released and is the only idle one,
\* a submission whose scan has not passed it selects exactly that oven, passes
\* the test of its status, and binds its order to it.
C14_PoolEpuise ==
  [][\A h \in Handlers : (th'[h] # th[h]) =>
       /\ (th[h].pc = "c_scan" /\ TousOccupes)
            => /\ IF th[h].i < NbFours THEN th'[h].pc = "c_scan" /\ th'[h].i = th[h].i + 1
                  ELSE th'[h].pc = "ret" /\ th'[h].res = 503
               /\ UNCHANGED <<commandes, tas, compteur_commandes, fours>>
       /\ (th'[h].res = 503 /\ th[h].res # 503) => th[h].pc = "c_scan"
       /\ \A f \in Fours :
            /\ (th[h].pc = "c_scan" /\ SeulLibre(f) /\ th[h].i <= f)
                 => IF th[h].i = f THEN th'[h].pc = "c_verif" /\ th'[h].four_id = f
                    ELSE th'[h].pc = "c_scan" /\ th'[h].i = th[h].i + 1
            /\ (th[h].pc = "c_verif" /\ th[h].four_id = f /\ SeulLibre(f))
                 => th'[h].pc = "id_lire"
       /\ (th[h].pc = "c_lier")
            => /\ fours'[th[h].four_id].commande_en_cours = th[h].cid
               /\ tas[th[h].commande].four_id = th[h].four_id
               /\ tas[th[h].commande].id = th[h].cid ]_vars

\* One submission was answered 503 while the pool was exhausted; the order on
\* four_3 has completed and released its oven, and the next submission is
\* accepted and bound to four_3.
C14_Temoin ==
  \E h, g \in Handlers :
    /\ th[h].pc = "ret" /\ th[h].res = 503
    /\ th[g].pc = "ret" /\ th[g].res = 201 /\ th[g].four_id = NbFours
    /\ tas[NbFours].statut = "termine"
    /\ Len(tas) = NbFours + 1 /\ tas[NbFours + 1].four_id = NbFours
    /\ fours[NbFours].statut = "cuisson"
    /\ fours[NbFours].commande_en_cours = tas[NbFours + 1].id

\* C15: a submission with a known recipe that names an oven is resolved to
\* that oven and no other; if the oven is not pret or disponible the call ends
\* as 302 (ResourceNotReady) having changed no order, no id and no oven; and the
\* oven an order is bound to was bound to no order before.
C15_FourNomme ==
  [][\A h \in Handlers : (th'[h] # th[h]) =>
       /\ \A r \in InRecettes \cap Recettes, f \in InFours \ {Aucun} :
            CommanderDebut(h, r, f, "ok") => (th'[h].pc = "c_verif" /\ th'[h].four_id = f)
       /\ (th[h].pc = "c_verif")
            => /\ IF FourPret(th[h].four_id) THEN th'[h].pc = "id_lire"
                  ELSE th'[h].pc = "ret" /\ th'[h].res = 302
               /\ UNCHANGED <<commandes, tas, compteur_commandes, fours>>
       /\ (th[h].pc = "c_lier")
            => /\ fours[th[h].four_id].commande_en_cours = None
               /\ fours'[th[h].four_id].commande_en_cours = th[h].cid ]_vars

\* The progression events of order id c in a sequence of events.
Progressions(s, c) ==
  SelectSeq(s, LAMBDA e : e.type = "progression" /\ e.commande_id = c)

\* C16: a subscriber receives the progression events of an order in the order
\* of the order's completed stages, one per stage: the stage ids it has
\* received follow the stage table, and when it has received the event of one
\* stage it has received before it the event of every earlier stage of that
\* order published since it subscribed.
C16_ProgressionsEnOrdre ==
  \A s \in Abonnes : \A i \in Ordres :
    LET recus == Progressions(th[s].out, tas[i].id)
        parus == Progressions(historique, tas[i].id)
    IN  /\ \A j, k \in 1..Len(recus) : j < k => recus[j].rang < recus[k].rang
        /\ \A k \in 1..Len(recus) : \A m \in 1..Len(parus) :
             (th[s].arg < parus[m].rang /\ parus[m].rang < recus[k].rang)
               => \E j \in 1..(k - 1) : recus[j] = parus[m]

\* trouver_four_disponible run from its first iteration to its return on the
\* pool as it is: the locals at the return, pc "trouve" or "absent".
RECURSIVE Parcours(_)
Parcours(r) ==
  LET n == TrouverPas(r, "trouve", Repos("absent"))
  IN  IF n.pc = r.pc THEN Parcours(n) ELSE n

Libres == {f \in Fours : fours[f].statut = "disponible"}

\* C17: on every pool state the scan returns the idle oven of lowest id, and
\* none exactly when no oven is idle; each iteration of a reserve call or of an
\* auto-select looks at the ovens in ascending order and takes the first idle
\* one it sees; and a call that finds none (302 for reserve, 503 for submit)
\* changes no oven, nor does any later step of it.
C17_PremierLibre ==
  [][ /\ LET res == Parcours([Repos("scan") EXCEPT !.i = 1])
         IN  IF Libres = {} THEN res.pc = "absent"
             ELSE /\ res.pc = "trouve"
                  /\ res.four_id \in Libres
                  /\ \A f \in Libres : res.four_id <= f
      /\ \A h \in Handlers : (th'[h] # th[h]) =>
           /\ (th[h].pc \in {"p_scan", "c_scan"})
                => /\ IF fours[th[h].i].statut = "disponible"
                        THEN /\ th'[h].four_id = th[h].i
                             /\ th'[h].pc = (IF th[h].pc = "p_scan" THEN "p_reserver"
                                             ELSE "c_verif")
                      ELSE IF th[h].i < NbFours
                        THEN th'[h].pc = th[h].pc /\ th'[h].i = th[h].i + 1
                      ELSE /\ th'[h].pc = "ret"
                           /\ th'[h].res = (IF th[h].pc = "p_scan" THEN 302 ELSE 503)
                   /\ UNCHANGED fours
           /\ (th[h].pc = "ret" /\ th[h].res \in {302, 503}) => UNCHANGED fours ]_vars

\* The ovens were reserved one after the other, four_3 last, and a further
\* reserve call found no idle oven and is answering 302.
C17_Temoin ==
  \E h, g \in Handlers :
    /\ th[h].pc = "ret" /\ th[h].res = 302 /\ th[h].pub = "none"
    /\ th[g].pc = "ret" /\ th[g].res = 200 /\ th[g].four_id = NbFours
    /\ \A f \in Fours : fours[f].statut = "pret" /\ fours[f].commande_en_cours = None

\* C18: a subscriber that opened its stream while the kitchen was at rest
\* receives a heartbeat, and no event of an order, as long as nothing is
\* published: whatever it has received that is not a heartbeat was published
\* after it subscribed.
C18_BattementAuRepos ==
  \A s \in Abonnes : th[s].calme =>
    \A e \in Recus(s) : e.type = "heartbeat" \/ e.rang > th[s].arg

\* C19: once created, an order is changed only by steps of the pipeline
\* thread started for it, and a pipeline thread changes no oven but the one
\* its order is bound to.
C19_TacheProprietaire ==
  [][ /\ \A i \in Ordres :
           tas'[i] # tas[i]
             => \E t \in Taches : th[t].ordre = i /\ th'[t] # th[t]
      /\ \A t \in Taches : \A f \in Fours :
           (th'[t] # th[t] /\ fours'[f] # fours[f])
             => f = tas[th[t].ordre].four_id ]_vars

\* The termine events in the history or on the queue.
Termines ==
  {e \in EnFile \cup {historique[i] : i \in 1..Len(historique)} : e.type = "termine"}

\* C20: whenever the termine event of an order is in the history or on the
\* queue, the order has statut termine, its fin is set, and its oven is not
\* bound to it.
C20_TermineApresLiberation ==
  \A e \in Termines : \A i \in Ordres :
    tas[i].id = e.commande_id
      => /\ tas[i].statut = "termine"
         /\ tas[i].fin
         /\ fours[tas[i].four_id].commande_en_cours # tas[i].id

\* In a sequence of events, every progression event of an order comes after a
\* commande event of that order.
CommandeDAbord(s) ==
  \A j \in 1..Len(s) :
    s[j].type = "progression"
      => \E i \in 1..(j - 1) : s[i].type = "commande" /\ s[i].commande_id = s[j].commande_id

\* The submission that created order i has not yet marked the order's oven
\* busy and bound it.
NonLie(i) ==
  \E h \in Handlers : th[h].commande = i /\ th[h].pc \in {"c_cuisson", "c_lier"}

\* C21: when a pipeline thread makes its first stage update, the order it
\* updates is recorded en_preparation with progression 0 and the submission
\* that created the order has already marked its oven busy and bound it; and
\* in the history and on the queue the commande event of an order comes before
\* its progression events.
C21_SoumisAvantEtape ==
  [][ /\ \A t \in Taches :
           (th[t].pc = "t_statut" /\ th[t].k = 1 /\ th'[t].pc = "t_prog")
             => /\ tas[th[t].commande].statut = "en_preparation"
                /\ tas[th[t].commande].progression = 0
                /\ ~NonLie(th[t].commande)
      /\ CommandeDAbord(historique)' /\ CommandeDAbord(events_queue)' ]_vars

\* C22: the history lists the events in the order in which they were put on
\* the queue, and each of the last 100 events put on the queue is in the
\* history, or in the hands of the thread that is about to append it.
C22_HistoriqueFidele ==
  /\ \A i, j \in 1..Len(historique) : i < j => historique[i].rang < historique[j].rang
  /\ \A r \in 1..cpt.nput :
       r > cpt.nput - MaxHistorique
         => \/ \E i \in 1..Len(historique) : historique[i].rang = r
            \/ \E t \in Threads : th[t].pub = "append" /\ th[t].ev.rang = r

\* Every oven is reserved and bound to no order.
TousReserves ==
  \A f \in Fours : fours[f].statut = "pret" /\ fours[f].commande_en_cours = None

\* C23: a submission whose oven was auto-selected never marks busy an oven
\* that is reserved (pret) or preheating; an oven leaves the statut pret only
\* by the write of a submission that named it; and while every oven is
\* reserved and unbound no scan, of a reserve call or of an auto-select,
\* selects an oven.
C23_AutoLibreSeulement ==
  [][ /\ \A h \in Handlers : (th'[h] # th[h]) =>
           /\ (th[h].pc = "c_cuisson" /\ th[h].auto)
                => fours[th[h].four_id].statut \notin {"pret", "prechauffage"}
           /\ (th[h].pc \in {"p_scan", "c_scan"} /\ TousReserves)
                => th'[h].pc \in {th[h].pc, "ret"}
      /\ \A f \in Fours :
           (fours[f].statut = "pret" /\ fours'[f].statut # "pret")
             => \E h \in Handlers :
                  /\ th[h].pc = "c_cuisson" /\ th'[h] # th[h]
                  /\ th[h].four_id = f /\ ~th[h].auto ]_vars

=============================================================================
